---- MODULE Spec2Model ----
(***************************************************************************)
(* The Streamlit script app.py as a state machine.  One run of the script  *)
(* (a "pass") walks the sections of the file in order; st.stop() and an    *)
(* unhandled exception end the pass early; a user interaction starts the   *)
(* next pass.  DataFrames are objects on a heap so that in-place column    *)
(* assignment, .copy() and the pickled st.cache_data entry can be told     *)
(* apart.                                                                  *)
(***************************************************************************)
EXTENDS Integers, Sequences, FiniteSets, TLC

VARIABLES
    file,            \* cryptodata.csv on disk: <<>> unreadable, <<table>> readable
    uploaded,        \* file given to the file_uploader: <<>> None, <<table>>
    cacheRef,        \* st.cache_data entry of load_data(): 0 none, else a heap ref
    live,            \* heap refs in use
    heap,            \* ref -> DataFrame
    ms_state,        \* multiselect widget state: <<>> never set, <<S>> set by user
    di_state,        \* date_input widget state: <<>> never set, <<a>> or <<a, b>>
    pc,              \* position of the running pass in the script
    loader,          \* what load_data() did in this pass
    df,              \* ref of df (0 unbound)
    data,            \* ref of data (0 unbound)
    styled,          \* ref of styled_data (0 unbound)
    selected_coins,  \* value returned by st.sidebar.multiselect
    date_range,      \* value returned by st.sidebar.date_input
    latest,          \* rows of latest, in group-key order
    out,             \* elements written to the page in this pass
    download         \* <<>> or <<arguments of st.download_button>>

vars == <<file, uploaded, cacheRef, live, heap, ms_state, di_state, pc, loader,
          df, data, styled, selected_coins, date_range, latest, out, download>>

(***************************************************************************)
(* Bounds of the model.                                                    *)
(***************************************************************************)
MaxRows == 3        \* rows of a CSV in the dashboard specification
MaxSeries == 8      \* rows of a CSV in the deriver specification
NumRefs == 5        \* heap cells

Refs == 1..NumRefs

(***************************************************************************)
(* Numbers: pandas float64 cells, as NaN or an exact normalised fraction.  *)
(***************************************************************************)
NaN == [nan |-> TRUE, num |-> 0, den |-> 1]

Abs(n) == IF n < 0 THEN -n ELSE n

RECURSIVE Gcd(_, _)
Gcd(a, b) == IF b = 0 THEN a ELSE Gcd(b, a % b)

\* the fraction n/d in lowest terms with a positive denominator (d # 0)
Rat(n, d) ==
    LET g == Gcd(Abs(n), Abs(d))
        s == IF d < 0 THEN -1 ELSE 1
    IN  [nan |-> FALSE, num |-> s * (n \div g), den |-> s * (d \div g)]

RAdd(p, q) == IF p.nan \/ q.nan THEN NaN
              ELSE Rat(p.num * q.den + q.num * p.den, p.den * q.den)
RSub(p, q) == IF p.nan \/ q.nan THEN NaN
              ELSE Rat(p.num * q.den - q.num * p.den, p.den * q.den)
RMul(p, q) == IF p.nan \/ q.nan THEN NaN ELSE Rat(p.num * q.num, p.den * q.den)
RInt(n) == Rat(n, 1)

(***************************************************************************)
(* Dates.  A CSV date cell is text: <<y, m, d>> for "y-m-d" and            *)
(* <<y, m, d, h>> for "y-m-d h:00:00".  pd.to_datetime gives a Timestamp   *)
(* <<y, m, d, h>>; .date() and .dt.date give the datetime.date <<y, m, d>>.*)
(***************************************************************************)
Text(v) == [kind |-> "str", v |-> v]
Timestamp(v) == [kind |-> "datetime", v |-> v]

ToDatetime(cell) ==
    IF cell.kind = "datetime" THEN cell
    ELSE Timestamp(IF Len(cell.v) = 3 THEN cell.v \o <<0>> ELSE cell.v)

DateOf(ts) == <<ts.v[1], ts.v[2], ts.v[3]>>
DateKey(d) == (d[1] * 100 + d[2]) * 100 + d[3]
TsKey(ts) == DateKey(DateOf(ts)) * 100 + ts.v[4]

\* Series.dt.strftime('%Y-%m-%d')
StrftimeYmd(ts) == Text(DateOf(ts))

(***************************************************************************)
(* Strings.                                                                *)
(***************************************************************************)
Symbols == {"BTC", "btc", "ETH"}

\* str.upper() on the symbols of the model
Upper(s) == CASE s = "btc" -> "BTC"
              [] s = "eth" -> "ETH"
              [] OTHER -> s

\* the symbols in code-point order, the order groupby sorts its keys in
SortedKeys == <<"BTC", "ETH", "btc">>

(***************************************************************************)
(* DataFrames: the column labels in order, and the rows in index order.    *)
(***************************************************************************)
RequiredCols ==
    <<"coin_id", "symbol", "timestamp", "date", "open", "high", "low", "close">>

Range(s) == {s[i] : i \in 1..Len(s)}

NoTable == [cols |-> <<>>, rows |-> <<>>]

\* df[col] = vals
SetColumn(t, col, vals) ==
    [cols |-> IF col \in Range(t.cols) THEN t.cols ELSE Append(t.cols, col),
     rows |-> [i \in 1..Len(t.rows) |->
                 [f \in DOMAIN t.rows[i] \cup {col} |->
                     IF f = col THEN vals[i] ELSE t.rows[i][f]]]]

\* df[cols]
SelectColumns(t, cols) ==
    [cols |-> cols,
     rows |-> [i \in 1..Len(t.rows) |-> [f \in Range(cols) |-> t.rows[i][f]]]]

Column(t, col) == [i \in 1..Len(t.rows) |-> t.rows[i][col]]

\* the smallest unused heap ref: every pandas call that returns a new object
NewObject(inUse) == CHOOSE r \in Refs \ inUse : \A q \in Refs \ inUse : r <= q

(***************************************************************************)
(* Metric Deriver (lines 39-45).                                           *)
(***************************************************************************)
MinOf(S) == CHOOSE m \in S : \A x \in S : m <= x
MaxOf(S) == CHOOSE m \in S : \A x \in S : x <= m

\* Every order of the positions S that is ascending in keys.  sort_values uses
\* kind='quicksort', which is not stable: rows of equal date may come out in
\* any order.
RECURSIVE SortOrders(_, _)
SortOrders(keys, S) ==
    IF S = {} THEN {<<>>}
    ELSE LET m == MinOf({keys[i] : i \in S})
         IN  UNION {{<<i>> \o rest : rest \in SortOrders(keys, S \ {i})} :
                      i \in {j \in S : keys[j] = m}}

Permute(t, p) == [cols |-> t.cols, rows |-> [i \in 1..Len(p) |-> t.rows[p[i]]]]

\* df.sort_values('date'): the tables it may return
SortValuesByDate(t) ==
    {Permute(t, p) :
       p \in SortOrders([i \in 1..Len(t.rows) |-> TsKey(t.rows[i].date)],
                        1..Len(t.rows))}

\* pct_change() taken within each symbol: the row before is the last earlier
\* row of the same symbol
PctChangePerSymbol(rows) ==
    [i \in 1..Len(rows) |->
        LET prev == {j \in 1..(i - 1) : rows[j].symbol = rows[i].symbol}
        IN  IF prev = {} THEN NaN
            ELSE RSub(Rat(rows[i].close, rows[MaxOf(prev)].close), RInt(1))]

\* df['close'].pct_change(): close[i] / close[i-1] - 1, NaN in the first row
PctChange(rows) ==
    [i \in 1..Len(rows) |->
        IF i = 1 THEN NaN
        ELSE RSub(Rat(rows[i].close, rows[i - 1].close), RInt(1))]

Window == 7

RECURSIVE RSum(_, _)
RSum(x, S) == IF S = {} THEN RInt(0)
              ELSE LET j == MinOf(S) IN RAdd(x[j], RSum(x, S \ {j}))

\* the sample variance (ddof = 1) of the observations x[j], j \in S
SampleVar(x, S) ==
    LET n == Cardinality(S)
        s1 == RSum(x, S)
        s2 == RSum([j \in DOMAIN x |-> RMul(x[j], x[j])], S)
    IN  RMul(RSub(s2, RMul(RMul(s1, s1), Rat(1, n))), Rat(1, n - 1))

\* a rolling variance that only waits for w rows and skips the NaN among them
RollingVarSkipNaN(x, w) ==
    [i \in 1..Len(x) |->
        LET win == {j \in 1..i : j > i - w /\ ~x[j].nan}
        IN  IF i < w THEN NaN ELSE SampleVar(x, win)]

\* .rolling(w).std(), squared: the window at i is the last w rows up to i, its
\* observations are the non-NaN values in it, and with min_periods = w the
\* result is NaN unless all w are observations.
RollingVar(x, w) ==
    [i \in 1..Len(x) |->
        LET win == {j \in 1..i : j > i - w}
            obs == {j \in win : ~x[j].nan}
        IN  IF Cardinality(obs) < w THEN NaN ELSE SampleVar(x, obs)]

\* lines 42-45 on the sorted table.  The volatility_7d cell holds the SQUARE of
\* the value pandas stores (std * 100), which keeps the cell a fraction.
AddMetrics(t) ==
    LET pct == PctChange(t.rows)
        var == RollingVar(PctChange(t.rows), Window)
        n   == Len(t.rows)
        t1  == SetColumn(t, "change_pct", [i \in 1..n |-> RMul(pct[i], RInt(100))])
        t2  == SetColumn(t1, "volatility_7d",
                         [i \in 1..n |-> RMul(var[i], RInt(100 * 100))])
        t3  == SetColumn(t2, "high_low_range",
                         [i \in 1..n |-> t.rows[i].high - t.rows[i].low])
    IN  SetColumn(t3, "typical_price",
                  [i \in 1..n |->
                      Rat(t.rows[i].high + t.rows[i].low + t.rows[i].close, 3)])

\* line 40, in place on the object load_data() returned
ParseDates(t) ==
    SetColumn(t, "date", [i \in 1..Len(t.rows) |-> ToDatetime(t.rows[i].date)])

(***************************************************************************)
(* Page elements.                                                          *)
(***************************************************************************)
El(kind, label) == [el |-> kind, label |-> label]

Header == <<El("title", ""), El("markdown", "")>>

(***************************************************************************)
(* Data Loader (lines 15-37).                                              *)
(***************************************************************************)
\* a stop that lets the script run on
StStopNoop(next) == next

\* st.stop(): the pass ends here, whatever statement would come next
StStop(next) == "stopped"

\* load_data(): which branch of the body runs
LoadOutcome(f, up) ==
    IF f # <<>> THEN "file" ELSE IF up = <<>> THEN "halt" ELSE "upload"

\* a cache that keeps the returned object itself
CacheEntryByReference(inUse, r) == r

\* st.cache_data keeps a pickled copy of the return value: an object of its own
CacheEntry(inUse, r) == NewObject(inUse)

NotRun == [ran |-> FALSE, read_ok |-> FALSE, requested |-> FALSE, source |-> "none"]

\* a cache hit: the body does not run, the caller gets a fresh unpickled copy
LoadCached ==
    /\ pc = "load"
    /\ cacheRef # 0
    /\ LET r == NewObject(live)
       IN  /\ heap' = [heap EXCEPT ![r] = heap[cacheRef]]
           /\ live' = live \cup {r}
           /\ df' = r
    /\ loader' = [NotRun EXCEPT !.source = "cache"]
    /\ out' = Header
    /\ pc' = "derive"
    /\ UNCHANGED <<file, uploaded, cacheRef, ms_state, di_state, data, styled,
                   selected_coins, date_range, latest, download>>

\* the body returns table t: the caller gets that object, the cache its copy
Returned(t, how, page) ==
    LET r == NewObject(live)
        c == CacheEntry(live \cup {r}, r)
    IN  /\ heap' = [heap EXCEPT ![r] = t, ![c] = t]
        /\ live' = live \cup {r, c}
        /\ df' = r
        /\ cacheRef' = c
        /\ loader' = how
        /\ out' = page
        /\ pc' = "derive"
        /\ UNCHANGED <<file, uploaded, ms_state, di_state, data, styled,
                       selected_coins, date_range, latest, download>>

LoadFromFile ==
    /\ pc = "load"
    /\ cacheRef = 0
    /\ LoadOutcome(file, uploaded) = "file"
    /\ Returned(file[1], [ran |-> TRUE, read_ok |-> TRUE, requested |-> FALSE,
                          source |-> "file"],
                Header)

LoadFromUpload ==
    /\ pc = "load"
    /\ cacheRef = 0
    /\ LoadOutcome(file, uploaded) = "upload"
    /\ Returned(uploaded[1], [ran |-> TRUE, read_ok |-> FALSE, requested |-> TRUE,
                              source |-> "upload"],
                Append(Header, El("file_uploader", "")))

LoadHalt ==
    /\ pc = "load"
    /\ cacheRef = 0
    /\ LoadOutcome(file, uploaded) = "halt"
    /\ loader' = [ran |-> TRUE, read_ok |-> FALSE, requested |-> TRUE,
                  source |-> "none"]
    /\ out' = Header \o <<El("file_uploader", ""), El("info", "")>>
    /\ pc' = StStop("derive")
    /\ UNCHANGED <<file, uploaded, cacheRef, live, heap, ms_state, di_state, df,
                   data, styled, selected_coins, date_range, latest, download>>

(***************************************************************************)
(* Clean & prepare (lines 39-47).                                          *)
(***************************************************************************)
Derive ==
    /\ pc = "derive"
    /\ \E sorted \in SortValuesByDate(ParseDates(heap[df])) :
         LET r == NewObject(live)
         IN  /\ heap' = [heap EXCEPT ![df] = ParseDates(heap[df]),
                                     ![r] = AddMetrics(sorted)]
             /\ live' = live \cup {r}
             /\ df' = r
             \* line 47: max() of no dates is NaT, and NaT.strftime raises
             /\ IF sorted.rows = <<>>
                THEN /\ out' = Append(out, El("exception", ""))
                     /\ pc' = "error"
                ELSE /\ out' = Append(out, El("success", ""))
                     /\ pc' = "sidebar"
    /\ UNCHANGED <<file, uploaded, cacheRef, ms_state, di_state, loader, data,
                   styled, selected_coins, date_range, latest, download>>

(***************************************************************************)
(* Sidebar filters (lines 49-64).                                          *)
(***************************************************************************)
\* Series.unique(): the distinct values in order of first appearance
RECURSIVE Unique(_)
Unique(s) ==
    IF s = <<>> THEN <<>>
    ELSE LET n == Len(s)
             front == Unique(SubSeq(s, 1, n - 1))
         IN  IF s[n] \in Range(front) THEN front ELSE Append(front, s[n])

\* df['symbol'].str.upper().unique()
Coins(t) == Unique([i \in 1..Len(t.rows) |-> Upper(t.rows[i].symbol)])

\* default=coins[:1]
DefaultCoins(coins) == IF coins = <<>> THEN {} ELSE {coins[1]}

MinDate(t) ==
    DateOf(t.rows[CHOOSE i \in 1..Len(t.rows) :
             \A j \in 1..Len(t.rows) : TsKey(t.rows[i].date) <= TsKey(t.rows[j].date)].date)

MaxDate(t) ==
    DateOf(t.rows[CHOOSE i \in 1..Len(t.rows) :
             \A j \in 1..Len(t.rows) : TsKey(t.rows[j].date) <= TsKey(t.rows[i].date)].date)

Sidebar ==
    /\ pc = "sidebar"
    /\ selected_coins' = IF ms_state = <<>> THEN DefaultCoins(Coins(heap[df]))
                         ELSE ms_state[1]
    /\ date_range' = IF di_state = <<>>
                     THEN <<MinDate(heap[df]), MaxDate(heap[df])>>
                     ELSE di_state
    /\ out' = out \o <<El("multiselect", ""), El("date_input", "")>>
    /\ pc' = "filter"
    /\ UNCHANGED <<file, uploaded, cacheRef, live, heap, ms_state, di_state, loader,
                   df, data, styled, latest, download>>

(***************************************************************************)
(* Filter data (lines 66-76).                                              *)
(***************************************************************************)
\* the mask with the end bound compared on the Timestamp, not on its date
MaskOnTimestamp(rows, sel, dr) ==
    [i \in 1..Len(rows) |->
        /\ Upper(rows[i].symbol) \in {Upper(c) : c \in sel}
        /\ DateKey(DateOf(rows[i].date)) >= DateKey(dr[1])
        /\ IF Len(dr) > 1 THEN TsKey(rows[i].date) <= DateKey(dr[2]) * 100 ELSE TRUE]

\* the mask comparing the raw symbol
MaskRawSymbol(rows, sel, dr) ==
    [i \in 1..Len(rows) |->
        /\ rows[i].symbol \in {Upper(c) : c \in sel}
        /\ DateKey(DateOf(rows[i].date)) >= DateKey(dr[1])
        /\ IF Len(dr) > 1 THEN DateKey(DateOf(rows[i].date)) <= DateKey(dr[2])
           ELSE TRUE]

\* the mask with a one-value range read as the single day
MaskSingleDay(rows, sel, dr) ==
    [i \in 1..Len(rows) |->
        /\ Upper(rows[i].symbol) \in {Upper(c) : c \in sel}
        /\ DateKey(DateOf(rows[i].date)) >= DateKey(dr[1])
        /\ DateKey(DateOf(rows[i].date)) <= DateKey(dr[Len(dr)])]

\* lines 67-71
Mask(rows, sel, dr) ==
    [i \in 1..Len(rows) |->
        /\ Upper(rows[i].symbol) \in {Upper(c) : c \in sel}
        /\ DateKey(DateOf(rows[i].date)) >= DateKey(dr[1])
        /\ IF Len(dr) > 1 THEN DateKey(DateOf(rows[i].date)) <= DateKey(dr[2])
           ELSE TRUE]

\* df[mask]: the rows whose mask is True, in index order
RECURSIVE BoolIndexRows(_, _)
BoolIndexRows(rows, mask) ==
    IF rows = <<>> THEN <<>>
    ELSE LET n == Len(rows)
             front == BoolIndexRows(SubSeq(rows, 1, n - 1), SubSeq(mask, 1, n - 1))
         IN  IF mask[n] THEN Append(front, rows[n]) ELSE front

BoolIndex(t, mask) == [cols |-> t.cols, rows |-> BoolIndexRows(t.rows, mask)]

\* empty only when both axes have length 0
EmptyOnlyWithoutColumns(t) == Len(t.rows) = 0 /\ Len(t.cols) = 0

\* DataFrame.empty: some axis has length 0
Empty(t) == Len(t.rows) = 0 \/ Len(t.cols) = 0

Filter ==
    /\ pc = "filter"
    /\ LET r == NewObject(live)
           t == BoolIndex(heap[df], Mask(heap[df].rows, selected_coins, date_range))
       IN  /\ heap' = [heap EXCEPT ![r] = t]
           /\ live' = live \cup {r}
           /\ data' = r
           /\ IF Empty(t)
              THEN /\ out' = Append(out, El("warning", ""))
                   /\ pc' = StStop("metrics")
              ELSE /\ out' = out
                   /\ pc' = "metrics"
    /\ UNCHANGED <<file, uploaded, cacheRef, ms_state, di_state, loader, df, styled,
                   selected_coins, date_range, latest, download>>

(***************************************************************************)
(* Key metrics (lines 78-92).                                              *)
(***************************************************************************)
MaxCards == 4

\* x.iloc[0] of each group, in key order
GroupFirst(rows, keys) ==
    [k \in 1..Len(keys) |->
        rows[MinOf({i \in 1..Len(rows) : rows[i].symbol = keys[k]})]]

\* groupby('symbol').apply(lambda x: x.iloc[-1]): the last row of each group
GroupLast(rows, keys) ==
    [k \in 1..Len(keys) |->
        rows[MaxOf({i \in 1..Len(rows) : rows[i].symbol = keys[k]})]]

\* the group keys of groupby('symbol'): the symbols present, sorted
GroupKeys(rows) ==
    SelectSeq(SortedKeys, LAMBDA s : \E i \in 1..Len(rows) : rows[i].symbol = s)

Metrics ==
    /\ pc = "metrics"
    /\ LET rows == heap[data].rows
           agg  == GroupLast(rows, GroupKeys(rows))
       IN  /\ latest' = agg
           /\ out' = out
                \o [i \in 1..(IF Len(agg) < MaxCards THEN Len(agg) ELSE MaxCards) |->
                       El("metric", Upper(agg[i].symbol))]
                \o <<El("markdown", "---")>>
    /\ pc' = "charts"
    /\ UNCHANGED <<file, uploaded, cacheRef, live, heap, ms_state, di_state, loader,
                   df, data, styled, selected_coins, date_range, download>>

(***************************************************************************)
(* Charts 1-4 (lines 94-142).                                              *)
(***************************************************************************)
Charts ==
    /\ pc = "charts"
    /\ LET coins == Coins(heap[data])
       IN  out' = out
                \o [i \in 1..Len(coins) |-> El("candlestick", coins[i])]
                \o <<El("line", "close"), El("line", "volatility_7d"),
                     El("bar", "high_low_range")>>
    /\ pc' = "table"
    /\ UNCHANGED <<file, uploaded, cacheRef, live, heap, ms_state, di_state, loader,
                   df, data, styled, selected_coins, date_range, latest, download>>

(***************************************************************************)
(* Summary table (lines 144-157).                                          *)
(***************************************************************************)
display_cols ==
    <<"date", "symbol", "open", "high", "low", "close", "change_pct", "volatility_7d">>

\* Series.round(2): the nearest hundredth, a tie to the even one
Round2(x) ==
    IF x.nan THEN NaN
    ELSE LET q == (x.num * 100) \div x.den
             twice == 2 * (x.num * 100 - q * x.den)
             h == IF twice < x.den \/ (twice = x.den /\ q % 2 = 0) THEN q ELSE q + 1
         IN  Rat(h, 100)

\* round(2) of a volatility_7d cell, which holds the square of the value: the
\* hundredth nearest to its square root
Round2OfRoot(x) ==
    IF x.nan THEN NaN
    ELSE LET top == 100 * (x.num \div x.den + 1)
             h   == CHOOSE k \in 0..top :
                      /\ (2 * k - 1) * (2 * k - 1) * x.den <= 4 * 100 * 100 * x.num
                      /\ 4 * 100 * 100 * x.num < (2 * k + 1) * (2 * k + 1) * x.den
         IN  Rat(h, 100)

\* lines 148-151: a copy of the display columns, then three columns rewritten
Styled(t) ==
    LET n  == Len(t.rows)
        s0 == SelectColumns(t, display_cols)
        s1 == SetColumn(s0, "date", [i \in 1..n |-> StrftimeYmd(s0.rows[i].date)])
        s2 == SetColumn(s1, "change_pct", [i \in 1..n |-> Round2(s1.rows[i].change_pct)])
    IN  SetColumn(s2, "volatility_7d",
                  [i \in 1..n |-> Round2OfRoot(s2.rows[i].volatility_7d)])

Table ==
    /\ pc = "table"
    /\ LET r == NewObject(live)
       IN  /\ heap' = [heap EXCEPT ![r] = Styled(heap[data])]
           /\ live' = live \cup {r}
           /\ styled' = r
    /\ out' = out \o <<El("markdown", "---"), El("dataframe", "")>>
    /\ pc' = "download"
    /\ UNCHANGED <<file, uploaded, cacheRef, ms_state, di_state, loader, df, data,
                   selected_coins, date_range, latest, download>>

(***************************************************************************)
(* Download (lines 159-168).                                               *)
(***************************************************************************)
FloatCols == {"change_pct", "volatility_7d", "typical_price"}

\* one cell of to_csv: NaN is written as the empty field; a datetime column is
\* written as dates when every value is at midnight, else with the time
CsvCell(col, v, dateOnly) ==
    CASE col = "date" ->
            IF dateOnly THEN Text(DateOf(v)) ELSE Text(v.v)
      [] col \in FloatCols -> IF v.nan THEN Text(<<>>) ELSE v
      [] OTHER -> v

\* DataFrame.to_csv(index=False): the header line and one line per row
ToCsv(t) ==
    LET dateOnly == \A i \in 1..Len(t.rows) : t.rows[i].date.v[4] = 0
    IN  [header |-> t.cols,
         lines  |-> [i \in 1..Len(t.rows) |->
                       [k \in 1..Len(t.cols) |->
                           CsvCell(t.cols[k], t.rows[i][t.cols[k]], dateOnly)]]]

\* the unfiltered table
ExportedFullTable == df

\* the table whose CSV is offered for download
Exported == data

Download ==
    /\ pc = "download"
    /\ download' = <<[data |-> ToCsv(heap[Exported]),
                      file_name |-> "crypto_price_data.csv",
                      mime |-> "text/csv"]>>
    /\ out' = out \o <<El("download_button", ""), El("caption", "")>>
    /\ pc' = "done"
    /\ UNCHANGED <<file, uploaded, cacheRef, live, heap, ms_state, di_state, loader,
                   df, data, styled, selected_coins, date_range, latest>>

(***************************************************************************)
(* The next pass: Streamlit reruns the script from the top.  The names of  *)
(* the last pass are gone; the cache entry and the widget states stay.     *)
(***************************************************************************)
StartPass ==
    /\ pc' = "load"
    /\ loader' = NotRun
    /\ live' = IF cacheRef = 0 THEN {} ELSE {cacheRef}
    /\ heap' = [r \in Refs |-> IF r = cacheRef THEN heap[r] ELSE NoTable]
    /\ df' = 0
    /\ data' = 0
    /\ styled' = 0
    /\ selected_coins' = {}
    /\ date_range' = <<>>
    /\ latest' = <<>>
    /\ out' = <<>>
    /\ download' = <<>>
    /\ UNCHANGED <<file, cacheRef>>

PassOver == pc \in {"done", "stopped", "error"}

\* the sidebar was drawn in the pass that just ended
SidebarShown == pc \in {"done", "stopped"} /\ data # 0

Calendar == {<<2024, 1, k>> : k \in 1..31}

\* what date_input can return between min_value and max_value
DateRanges(lo, hi) ==
    LET days == {d \in Calendar : DateKey(lo) <= DateKey(d) /\ DateKey(d) <= DateKey(hi)}
    IN  {<<a>> : a \in days}
          \cup {r \in {<<a, b>> : a \in days, b \in days} : DateKey(r[1]) <= DateKey(r[2])}

\* a rerun with no widget changed
Rerun ==
    /\ PassOver
    /\ StartPass
    /\ UNCHANGED <<uploaded, ms_state, di_state>>

RawRow(sym, dt, c) ==
    [coin_id |-> IF Upper(sym) = "BTC" THEN "bitcoin" ELSE "ethereum",
     symbol |-> sym, timestamp |-> Text(dt), date |-> Text(dt),
     open |-> c, high |-> c + 1, low |-> c - 1, close |-> c]

Csv(rows) == [cols |-> RequiredCols, rows |-> rows]

UploadTables ==
    {Csv(<<RawRow("btc", <<2024, 1, 2>>, 110), RawRow("ETH", <<2024, 1, 1>>, 50)>>),
     Csv(<<RawRow("ETH", <<2024, 1, 2, 12>>, 45)>>)}

\* the user supplies a file to the uploader
Upload ==
    /\ pc = "stopped"
    /\ loader.requested
    /\ \E t \in UploadTables : uploaded' = <<t>>
    /\ StartPass
    /\ UNCHANGED <<ms_state, di_state>>

\* the user changes the coin selection
ChangeCoins ==
    /\ SidebarShown
    /\ \E S \in SUBSET Range(Coins(heap[df])) :
         /\ S # selected_coins
         /\ ms_state' = <<S>>
    /\ StartPass
    /\ UNCHANGED <<uploaded, di_state>>

\* the user changes the date range
ChangeDates ==
    /\ SidebarShown
    /\ \E dr \in DateRanges(MinDate(heap[df]), MaxDate(heap[df])) :
         /\ dr # date_range
         /\ di_state' = dr
    /\ StartPass
    /\ UNCHANGED <<uploaded, ms_state>>

(***************************************************************************)
(* The dashboard: any CSV of at most MaxRows rows on disk, or none.        *)
(***************************************************************************)
Pool ==
    {RawRow("BTC", <<2024, 1, 1>>, 100),
     RawRow("BTC", <<2024, 1, 2>>, 110),
     RawRow("BTC", <<2024, 1, 2, 12>>, 99),
     RawRow("btc", <<2024, 1, 1>>, 105),
     RawRow("ETH", <<2024, 1, 1>>, 50)}

Files == {<<>>} \cup {<<Csv(rows)>> : rows \in UNION {[1..n -> Pool] : n \in 0..MaxRows}}

FirstPass ==
    /\ uploaded = <<>>
    /\ cacheRef = 0
    /\ live = {}
    /\ heap = [r \in Refs |-> NoTable]
    /\ ms_state = <<>>
    /\ di_state = <<>>
    /\ pc = "load"
    /\ loader = NotRun
    /\ df = 0
    /\ data = 0
    /\ styled = 0
    /\ selected_coins = {}
    /\ date_range = <<>>
    /\ latest = <<>>
    /\ out = <<>>
    /\ download = <<>>

Init == file \in Files /\ FirstPass

Next ==
    \/ LoadCached
    \/ LoadFromFile
    \/ LoadFromUpload
    \/ LoadHalt
    \/ Derive
    \/ Sidebar
    \/ Filter
    \/ Metrics
    \/ Charts
    \/ Table
    \/ Download
    \/ Rerun
    \/ Upload
    \/ ChangeCoins
    \/ ChangeDates

Spec == Init /\ [][Next]_vars

(***************************************************************************)
(* The deriver alone, on daily series of up to MaxSeries rows.             *)
(***************************************************************************)
Series(closes, backwards) ==
    Csv([i \in 1..Len(closes) |->
           RawRow(IF i % 2 = 1 THEN "BTC" ELSE "ETH",
                  <<2024, 1, IF backwards THEN Len(closes) + 1 - i ELSE i>>,
                  closes[i])])

SeriesFiles ==
    {<<Series(closes, backwards)>> :
       closes \in UNION {[1..n -> {1, 2}] : n \in 1..MaxSeries},
       backwards \in BOOLEAN}

InitDerive == file \in SeriesFiles /\ FirstPass

NextDerive == LoadFromFile \/ Derive

SpecDerive == InitDerive /\ [][NextDerive]_vars

(***************************************************************************)
(* Properties.                                                             *)
(***************************************************************************)
\* df is bound to the derived table
Derived == df # 0 /\ pc \notin {"load", "derive"}

\* the filter has run in this pass
Filtered == data # 0

Kinds(page) == {page[i].el : i \in 1..Len(page)}

Rendering == {"metric", "candlestick", "line", "bar", "dataframe", "download_button"}

\* the position in rows of the k-th member of the set M of positions
Nth(M, k) == CHOOSE i \in M : Cardinality({j \in M : j <= i}) = k

\* kept is exactly the subsequence of rows at the positions M
IsSubsequenceAt(kept, rows, M) ==
    /\ Len(kept) = Cardinality(M)
    /\ Len(kept) <= Len(rows)
    /\ \A k \in 1..Len(kept) : kept[k] = rows[Nth(M, k)]

Selected(r) == Upper(r.symbol) \in {Upper(c) : c \in selected_coins}

\* C1: with a two-valued date range [a, b] the filtered table is exactly the
\* subsequence of the derived table's rows whose uppercased symbol is selected
\* and whose date, without the time of day, lies in [a, b]: none missing, none
\* extra, no more rows than the input, in the input's order.
C1_FilterExact ==
    (Filtered /\ Len(date_range) = 2) =>
        LET rows == heap[df].rows
            M == {i \in 1..Len(rows) :
                    /\ Selected(rows[i])
                    /\ DateKey(date_range[1]) <= DateKey(DateOf(rows[i].date))
                    /\ DateKey(DateOf(rows[i].date)) <= DateKey(date_range[2])}
        IN  IsSubsequenceAt(heap[data].rows, rows, M)

\* C1 happens: three rows in, two kept in order, one of them dated at noon of
\* the end date, one row dropped.
C1_Witness ==
    /\ Filtered
    /\ Len(date_range) = 2
    /\ Len(heap[df].rows) = 3
    /\ Len(heap[data].rows) = 2
    /\ \E k \in 1..2 : /\ heap[data].rows[k].date.v[4] = 12
                       /\ DateOf(heap[data].rows[k].date) = date_range[2]

\* C2: a pass whose filters select no row shows the warning and stops, with no
\* aggregate, metric card, chart, detail table or download; and a pass that
\* reached the aggregator or drew any of these has a non-empty filtered table.
C2_EmptyHalt ==
    /\ (Filtered /\ heap[data].rows = <<>>) =>
          /\ pc = "stopped"
          /\ out[Len(out)] = El("warning", "")
          /\ Kinds(out) \cap Rendering = {}
          /\ latest = <<>>
          /\ styled = 0
          /\ download = <<>>
    /\ (\/ pc \in {"charts", "table", "download", "done"}
        \/ Kinds(out) \cap Rendering # {}
        \/ latest # <<>>
        \/ download # <<>>) =>
          (Filtered /\ heap[data].rows # <<>>)

\* C2 happens: a coin is selected, yet its rows all fall outside the dates.
C2_Witness ==
    /\ pc = "stopped"
    /\ Filtered
    /\ heap[data].rows = <<>>
    /\ selected_coins # {}

\* C3: when load_data's body runs and the default file can be read, the table
\* is the file's and no upload is requested; when it cannot be read an upload is
\* requested, and while none has been supplied the pass halts after the prompt
\* with nothing else produced, on every pass.
C3_LoaderPriority ==
    /\ (loader.ran /\ file # <<>>) =>
          /\ loader.source = "file"
          /\ ~loader.requested
          /\ "file_uploader" \notin Kinds(out)
          /\ cacheRef # 0
          /\ heap[cacheRef] = file[1]
    /\ (loader.ran /\ file = <<>>) =>
          /\ loader.requested
          /\ "file_uploader" \in Kinds(out)
    /\ (loader.ran /\ file = <<>> /\ uploaded = <<>>) =>
          /\ pc = "stopped"
          /\ out = Header \o <<El("file_uploader", ""), El("info", "")>>
          /\ cacheRef = 0 /\ df = 0 /\ data = 0 /\ styled = 0
          /\ selected_coins = {} /\ date_range = <<>>
          /\ latest = <<>> /\ download = <<>>
    /\ (file = <<>> /\ uploaded = <<>>) =>
          /\ pc \in {"load", "stopped"}
          /\ cacheRef = 0

\* C3 happens: no file, no upload, and the pass has halted at the prompt.
C3_Witness ==
    /\ pc = "stopped"
    /\ loader.ran
    /\ file = <<>>
    /\ uploaded = <<>>

\* C4: the derived table is ascending in date, change_pct of its first row is
\* null, and change_pct of every later row i is
\* (close[i] - close[i-1]) / close[i-1] * 100 with i-1 the row just before it
\* in the whole table, whatever its symbol.
C4_ChangePct ==
    Derived =>
        LET rows == heap[df].rows
        IN  /\ \A i \in 1..(Len(rows) - 1) :
                  TsKey(rows[i].date) <= TsKey(rows[i + 1].date)
            /\ \A i \in 1..Len(rows) :
                  IF i = 1 THEN rows[i].change_pct.nan
                  ELSE /\ ~rows[i].change_pct.nan
                       /\ rows[i].change_pct.num * rows[i - 1].close
                            = (rows[i].close - rows[i - 1].close) * 100
                                * rows[i].change_pct.den

\* C4 happens: closes 100, 110, 99 give change_pct null, 10, -10.
C4_Witness ==
    /\ Derived
    /\ Len(heap[df].rows) = 3
    /\ Column(heap[df], "close") = <<100, 110, 99>>
    /\ Column(heap[df], "change_pct") = <<NaN, Rat(10, 1), Rat(-10, 1)>>

\* C5 as stated: volatility_7d[i] (0-based i) is null for every i < 6 and
\* defined for every i >= 6.
C5_AsStated ==
    Derived =>
        \A i \in 1..Len(heap[df].rows) :
            heap[df].rows[i].volatility_7d.nan <=> (i - 1 < 6)

\* C5 amended: volatility_7d[i] (0-based i) is null for every i < 7 and for
\* every i >= 7 it is defined, the sample standard deviation of the seven
\* change_pct values change_pct[i-6..i] (here: its square, their variance).
C5_VolatilityNull ==
    Derived =>
        LET rows == heap[df].rows
        IN  \A i \in 1..Len(rows) :
               IF i - 1 < 7 THEN rows[i].volatility_7d.nan
               ELSE /\ ~rows[i].volatility_7d.nan
                    /\ rows[i].volatility_7d
                         = SampleVar(Column(heap[df], "change_pct"), (i - 6)..i)

\* C5 happens: an eight-row table whose row 6 is null and row 7 is defined.
C5_Witness ==
    /\ Derived
    /\ Len(heap[df].rows) >= 8
    /\ heap[df].rows[7].volatility_7d.nan
    /\ ~heap[df].rows[8].volatility_7d.nan
    /\ heap[df].rows[8].volatility_7d.num > 0

Aggregated == pc \in {"charts", "table", "download", "done"}

\* C6: the aggregate of a non-empty filtered table has exactly one row for each
\* symbol present in it and no other, and the row for a symbol is a filtered row
\* of that symbol whose date is the greatest among the filtered rows of it.
C6_LatestPerCoin ==
    Aggregated =>
        LET rows == heap[data].rows
        IN  /\ {latest[k].symbol : k \in 1..Len(latest)}
                 = {rows[i].symbol : i \in 1..Len(rows)}
            /\ \A k \in 1..Len(latest) :
                  /\ \A j \in 1..Len(latest) :
                        latest[j].symbol = latest[k].symbol => j = k
                  /\ \E i \in 1..Len(rows) : rows[i] = latest[k]
                  /\ \A i \in 1..Len(rows) :
                        rows[i].symbol = latest[k].symbol =>
                            TsKey(rows[i].date) <= TsKey(latest[k].date)

\* C6 happens: BTC on two days and ETH on one give the later BTC row and the
\* ETH row.
C6_Witness ==
    /\ Aggregated
    /\ Column(heap[data], "symbol") = <<"BTC", "ETH", "BTC">>
    /\ Column(heap[data], "close") = <<100, 50, 110>>
    /\ Len(latest) = 2
    /\ latest[1].symbol = "BTC" /\ latest[1].close = 110
    /\ latest[2].symbol = "ETH" /\ latest[2].close = 50

\* a CSV field read back as the cell it was written from
ReadBack(col, field) ==
    CASE col = "date" -> ToDatetime(field)
      [] col \in FloatCols -> IF field = Text(<<>>) THEN NaN ELSE field
      [] OTHER -> field

\* the CSV holds exactly the rows of table t, line by line
HoldsRowsOf(csv, t) ==
    /\ Len(csv.lines) = Len(t.rows)
    /\ \A i \in 1..Len(csv.lines) :
          /\ Len(csv.lines[i]) = Len(csv.header)
          /\ \A k \in 1..Len(csv.header) :
                ReadBack(csv.header[k], csv.lines[i][k]) = t.rows[i][csv.header[k]]

DerivedCols == {"change_pct", "volatility_7d", "high_low_range", "typical_price"}

\* C7 as stated: the exported CSV of a completed pass holds exactly the rows of
\* the filtered table, its column set is the input table's, its name is
\* crypto_price_data.csv and its MIME type text/csv.
C7_AsStated ==
    pc = "done" =>
        /\ HoldsRowsOf(download[1].data, heap[data])
        /\ Range(download[1].data.header) = Range(heap[cacheRef].cols)
        /\ download[1].file_name = "crypto_price_data.csv"
        /\ download[1].mime = "text/csv"

\* C7 amended: the exported CSV of a completed pass holds exactly the rows of
\* the filtered table, its column set is the input table's together with the
\* four derived columns, its name is crypto_price_data.csv and its MIME type
\* text/csv.
C7_Export ==
    pc = "done" =>
        /\ Len(download) = 1
        /\ HoldsRowsOf(download[1].data, heap[data])
        /\ Range(download[1].data.header) = Range(heap[cacheRef].cols) \cup DerivedCols
        /\ Range(heap[cacheRef].cols) = Range(RequiredCols)
        /\ download[1].file_name = "crypto_price_data.csv"
        /\ download[1].mime = "text/csv"

\* C7 happens: a completed pass exports two of the three rows.
C7_Witness ==
    /\ pc = "done"
    /\ Len(heap[df].rows) = 3
    /\ Len(download[1].data.lines) = 2

\* C8: with a one-valued date range <<a>> the filtered table is exactly the
\* subsequence of the derived table's rows whose uppercased symbol is selected
\* and whose date is on or after a; no end bound drops a row.
C8_OpenEnded ==
    (Filtered /\ Len(date_range) = 1) =>
        LET rows == heap[df].rows
            M == {i \in 1..Len(rows) :
                    /\ Selected(rows[i])
                    /\ DateKey(date_range[1]) <= DateKey(DateOf(rows[i].date))}
        IN  IsSubsequenceAt(heap[data].rows, rows, M)

\* C8 happens: a row dated on the start date and a row dated after it are kept.
C8_Witness ==
    /\ Filtered
    /\ Len(date_range) = 1
    /\ \E k \in 1..Len(heap[data].rows) :
          DateOf(heap[data].rows[k].date) = date_range[1]
    /\ \E k \in 1..Len(heap[data].rows) :
          DateKey(DateOf(heap[data].rows[k].date)) > DateKey(date_range[1])

\* C9, one step of a session: once a table is memoized the entry stays the same
\* object with the same content and load_data's body does not run again; the
\* table a pass starts from equals the memoized one; the derived table is
\* recomputed from it in each pass; data and styled_data are objects of their
\* own; and no step after derivation changes the derived table.
C9_Step ==
    /\ cacheRef # 0 =>
          /\ cacheRef' = cacheRef
          /\ heap'[cacheRef] = heap[cacheRef]
          /\ ~loader'.ran \/ loader.ran
    /\ (pc = "load" /\ pc' = "derive") => heap'[df'] = heap'[cacheRef']
    /\ (pc = "derive" /\ pc' # "derive") =>
          \E s \in SortValuesByDate(ParseDates(heap[cacheRef])) :
              heap'[df'] = AddMetrics(s)
    /\ data' # 0 => data' \notin {df', cacheRef'}
    /\ styled' # 0 => styled' \notin {data', df', cacheRef'}
    /\ pc \in {"sidebar", "filter", "metrics", "charts", "table", "download"} =>
          /\ df' = df
          /\ heap'[df] = heap[df]

\* C9: every step of every session keeps the memoized raw table as loaded,
\* never runs the loader body again after a successful load, starts each pass
\* from that table, and leaves the derived table alone once it is computed.
C9_Snapshot == [][C9_Step]_vars

\* C9 happens: a pass after a filter change ran from the cache to the end.
C9_Witness ==
    /\ pc = "done"
    /\ loader.source = "cache"
    /\ ms_state # <<>>
    /\ di_state # <<>>

\* C10: a pass over a non-empty table with both controls at their defaults
\* selects the first uppercased symbol of the date-sorted table over the whole
\* span of dates, keeps every row of that symbol, and so does not stop at the
\* empty check.
C10_DefaultsNonEmpty ==
    (Filtered /\ ms_state = <<>> /\ di_state = <<>>) =>
        LET rows == heap[df].rows
            first == Upper(rows[1].symbol)
            M == {i \in 1..Len(rows) : Upper(rows[i].symbol) = first}
        IN  /\ selected_coins = {first}
            /\ date_range = <<MinDate(heap[df]), MaxDate(heap[df])>>
            /\ IsSubsequenceAt(heap[data].rows, rows, M)
            /\ heap[data].rows # <<>>
            /\ pc # "stopped"

\* C10 happens: a default pass completes on a table that starts with a
\* lower-case symbol and also holds another coin.
C10_Witness ==
    /\ pc = "done"
    /\ ms_state = <<>> /\ di_state = <<>>
    /\ heap[df].rows[1].symbol = "btc"
    /\ Len(heap[data].rows) < Len(heap[df].rows)

====
